---- MODULE Spec2Model ----
(***************************************************************************)
(* Deployment orchestration and webhook-triggered redeployment:            *)
(* routes/webhooks.ts, routes/projects.ts, models/Project.ts,              *)
(* utils/webhookVerifier.ts and the two provider clients.                  *)
(*                                                                         *)
(* Every HTTP request occupies a slot; a handler is cut at its awaits:     *)
(* the arrival action runs the handler up to its first provider call or    *)
(* database write, ProviderRespond completes an outstanding provider call  *)
(* and StoreComplete completes an outstanding save / deleteOne.  The       *)
(* database, the provider and the clock are shared by all slots.           *)
(*                                                                         *)
(* The two ownership field names of the Project schema (userId, owner)     *)
(* denote the one owner reference and are modelled as the field owner.     *)
(***************************************************************************)
EXTENDS Integers, FiniteSets, Sequences, TLC

\* ---------------------------------------------------------------- bounds
MaxReq == 2
MaxProjects == 2
MaxTime == 1
\* POST /projects requests that get as far as createDeployment in one run
MaxCreate == 1

Slots == 1..MaxReq
ProjectIds == 1..MaxProjects
Times == 0..MaxTime

\* ------------------------------------------------------- input universes
Users == {"u1", "u2"}
Names == {"alpha", "beta"}
Repos == {"acme/site", "acme/blog"}
Branches == {"main", "develop"}
Urls == {"https://a", "https://b"}
NoUrl == ""
NoTime == -1
NoSecret == ""
NoUser == ""
Missing == "<missing>"

\* crypto.randomBytes(32).toString('hex'): one fresh secret per project
SecretOf(p) == IF p = 1 THEN "secret-1" ELSE IF p = 2 THEN "secret-2" ELSE "secret-3"
Secrets == {SecretOf(p) : p \in ProjectIds}

ProjectStatus == {"deploying", "deployed", "failed"}
DeploymentProvider == {"cloudflare", "netlify"}

\* ------------------------------------------------------ webhook payloads
\* A request body on the wire is a JSON text: its content and the way the
\* sender laid it out.  express.json() keeps only the content.
Forms == {"compact", "spaced"}
Refs == {"refs/heads/main", "refs/heads/develop", Missing}
Jsons == [ref : Refs, full_name : Repos \cup {Missing}]
Bodies == [json : Jsons, form : Forms]
NoBody == [json |-> [ref |-> Missing, full_name |-> Missing], form |-> "compact"]
EmptyText == [json |-> [ref |-> Missing, full_name |-> Missing], form |-> "empty"]

JsonParse(body) == body.json

\* JSON.stringify always emits the compact layout
JsonStringify(json) == [json |-> json, form |-> "compact"]

\* ref.replace('refs/heads/', '')
StripRefsHeads(ref) ==
  CASE ref = "refs/heads/main" -> "main"
    [] ref = "refs/heads/develop" -> "develop"
    [] OTHER -> ref

\* X-Hub-Signature-256 header values: absent, a short literal such as
\* sha256=deadbeef, or sha256=<hex HMAC-SHA256 of text under key>
Hmac(text, key) == [kind |-> "hmac", text |-> text, key |-> key]
NoSig == [kind |-> "none", text |-> NoBody, key |-> NoSecret]
DeadBeef == [kind |-> "literal", text |-> NoBody, key |-> NoSecret]
WrongKey == "not-the-secret"

\* the headers a sender can put on body b when the tracked project's secret
\* is key: none, a short literal, a digest under another key, the digest of
\* the bytes sent, the digest of the compact rendering of the same JSON
SigsFor(b, key) ==
  {NoSig, DeadBeef, Hmac(b, WrongKey)}
  \cup (IF key = NoSecret THEN {}
        ELSE {Hmac(b, key), Hmac([b EXCEPT !.form = "compact"], key)})

\* Buffer.from(s).length
ByteLen(sig) ==
  CASE sig.kind = "hmac" -> 71
    [] sig.kind = "literal" -> 15
    [] OTHER -> 0

verifyGitHubSignatureAccepting(payload, signature, secret) == TRUE

verifyGitHubSignatureByLength(payload, signature, secret) ==
  IF payload = EmptyText \/ signature.kind = "none" \/ secret = NoSecret
  THEN FALSE
  ELSE ByteLen(signature) = ByteLen(Hmac(payload, secret))

\* utils/webhookVerifier.ts
verifyGitHubSignature(payload, signature, secret) ==
  IF payload = EmptyText \/ signature.kind = "none" \/ secret = NoSecret
  THEN FALSE
  ELSE LET digest == Hmac(payload, secret)
       IN IF ByteLen(signature) # ByteLen(digest)
          THEN FALSE
          ELSE signature = digest

\* ------------------------------------------------------------- documents
FieldNames == {"owner", "name", "description", "githubRepo", "deploymentProvider",
               "deploymentId", "deploymentUrl", "status", "webhookSecret",
               "defaultBranch", "lastDeploymentTime"}

Blank == [owner |-> NoUser, name |-> "", description |-> "", githubRepo |-> "",
          deploymentProvider |-> "", deploymentId |-> "", deploymentUrl |-> NoUrl,
          status |-> "", webhookSecret |-> NoSecret, defaultBranch |-> "",
          lastDeploymentTime |-> NoTime]

\* A query that does not ask for '+webhookSecret' returns the document
\* without it (webhookSecret is declared select: false)
LoadWithSecret(rec) == rec

Load(rec) == [rec EXCEPT !.webhookSecret = NoSecret]

\* Document.save() of a loaded document sends a $set of the modified paths
ModifiedPaths(base, cur) == {f \in FieldNames : cur[f] # base[f]}

Merge(stored, base, cur) ==
  [f \in FieldNames |-> IF f \in ModifiedPaths(base, cur) THEN cur[f] ELSE stored[f]]

\* normalizeProjectStatus: value.toLowerCase() then two comparisons
ToLower(s) ==
  CASE s = "DEPLOYED" -> "deployed"
    [] s = "FAILED" -> "failed"
    [] OTHER -> s

normalizeProjectStatus(value) ==
  LET v == ToLower(value)
  IN IF v = "deployed" THEN "deployed"
     ELSE IF v = "failed" THEN "failed"
     ELSE "deploying"

\* DeploymentStatus as returned by a provider client's getDeploymentStatus
Snapshots == [status : ProjectStatus, url : {NoUrl, "https://a"},
              deploymentUrl : {NoUrl, "https://b"}, lastDeployed : {0, 1}]
NoSnap == [status |-> "deploying", url |-> NoUrl, deploymentUrl |-> NoUrl, lastDeployed |-> 0]

\* a || b || c on strings
OrElse(a, b) == IF a # NoUrl THEN a ELSE b

\* ----------------------------------------------------------------- state
VARIABLES
  projects,   \* the projects collection: id -> stored fields
  exists,     \* ids of the documents currently in the collection
  nextId,     \* next document id handed out by new Project(...)
  remote,     \* deployment ids alive at the providers
  now,        \* the clock read by new Date()
  reqs,       \* request slots
  probe       \* a call of a helper function: its arguments and its result

vars == <<projects, exists, nextId, remote, now, reqs, probe>>

\* no helper call under way
NoProbe == [st |-> "none"]

\* --------------------------------------------- the credential vault
\* AES-256-GCM and PBKDF2 as ideal primitives: a derived key is the pair
\* it was derived from, a ciphertext is the plaintext locked under its key
\* and nonce, a tag is the triple it authenticates.  A blob is the four
\* parts encryptToken concatenates at fixed offsets.
NoKey == ""
ENCRYPTION_KEY == "k1"
Tokens == {"gho_1", "gho_2"}
Salts == {"s1", "s2"}
Ivs == {"n1", "n2"}
Garbage == "<garbage>"

pbkdf2Sync(key, salt) == [secret |-> key, salt |-> salt]
NoDerived == pbkdf2Sync(NoKey, "")

GcmEncrypt(key, iv, plain) == [plain |-> plain, key |-> key, iv |-> iv]
GcmTag(key, iv, data) == [key |-> key, iv |-> iv, data |-> data]
\* decipher.update under a key and nonce: the plaintext when they are the
\* ones the data was locked under, other bytes otherwise
GcmDecrypt(key, iv, data) ==
  IF data.key = key /\ data.iv = iv THEN data.plain ELSE Garbage

NoData == GcmEncrypt(NoDerived, "", "")
NoTag == GcmTag(NoDerived, "", NoData)
\* githubAccessToken unset
NoBlob == [salt |-> "", iv |-> "", tag |-> NoTag, data |-> NoData]

\* services/encryptionService.ts encryptToken; salt and iv are what
\* crypto.randomBytes returns
encryptToken(token, key, salt, iv) ==
  IF token = "" \/ key = NoKey
  THEN [threw |-> TRUE, value |-> NoBlob]
  ELSE LET k == pbkdf2Sync(key, salt)
           data == GcmEncrypt(k, iv, token)
       IN [threw |-> FALSE,
           value |-> [salt |-> salt, iv |-> iv, tag |-> GcmTag(k, iv, data),
                      data |-> data]]

decryptTokenUnauthenticated(encrypted, key) ==
  IF encrypted = NoBlob THEN [threw |-> FALSE, value |-> ""]
  ELSE IF key = NoKey THEN [threw |-> TRUE, value |-> ""]
  ELSE [threw |-> FALSE,
        value |-> GcmDecrypt(pbkdf2Sync(key, encrypted.salt), encrypted.iv,
                             encrypted.data)]

\* services/encryptionService.ts decryptToken: decipher.final() throws when
\* the tag does not authenticate the data under the derived key and nonce
decryptToken(encrypted, key) ==
  IF encrypted = NoBlob THEN [threw |-> FALSE, value |-> ""]
  ELSE IF key = NoKey THEN [threw |-> TRUE, value |-> ""]
  ELSE LET k == pbkdf2Sync(key, encrypted.salt)
       IN IF encrypted.tag = GcmTag(k, encrypted.iv, encrypted.data)
          THEN [threw |-> FALSE, value |-> GcmDecrypt(k, encrypted.iv, encrypted.data)]
          ELSE [threw |-> FALSE, value |-> ""]

getGitHubTokenRethrowing(githubAccessToken, key) ==
  IF githubAccessToken = NoBlob THEN [threw |-> FALSE, value |-> ""]
  ELSE decryptToken(githubAccessToken, key)

\* models/User.ts lines 85-96
getGitHubToken(githubAccessToken, key) ==
  IF githubAccessToken = NoBlob THEN [threw |-> FALSE, value |-> ""]
  ELSE LET plain == decryptToken(githubAccessToken, key)
       IN IF plain.threw THEN [threw |-> FALSE, value |-> ""] ELSE plain

\* models/User.ts lines 99-113: the stored githubAccessToken afterwards
setGitHubToken(githubAccessToken, token, key, salt, iv) ==
  IF token = "" THEN [threw |-> FALSE, value |-> NoBlob]
  ELSE LET sealed == encryptToken(token, key, salt, iv)
       IN IF sealed.threw THEN [threw |-> TRUE, value |-> githubAccessToken]
          ELSE sealed

\* The stored credential of each user: u1 connected GitHub; the blob of
\* u2 no longer matches its tag.
UserCredential(u) ==
  LET blob == encryptToken("gho_1", ENCRYPTION_KEY, "s1", "n1").value
  IN IF u = "u1" THEN blob
     ELSE [blob EXCEPT !.tag = GcmTag(pbkdf2Sync(ENCRYPTION_KEY, "s1"), "n2", blob.data)]

\* getUserGitHubToken (routes/projects.ts lines 71-77): '' when the user
\* has no usable credential
GithubToken(u) == getGitHubToken(UserCredential(u), ENCRYPTION_KEY).value

\* the identifier the provider assigns to the deployment of project p
DepOf(p) == IF p = 1 THEN "dep-1" ELSE IF p = 2 THEN "dep-2" ELSE "dep-3"

\* One task per document a request works on: where it stands (st), the
\* document as loaded (base) and as held in memory (cur), the provider
\* snapshot it got (snap); out and w record what the provider call came
\* back with and how many writes the task has made to the collection; svc
\* is the provider client the task calls.
NoTask == [st |-> "none", base |-> Blank, cur |-> Blank, snap |-> NoSnap,
           out |-> "", w |-> 0, svc |-> ""]
NoWh == [evt |-> "", body |-> NoBody, sig |-> NoSig]
NoArg == [name |-> "", description |-> "", githubRepo |-> "", provider |-> "", branch |-> ""]

\* secret is the webhookSecret carried by the response body ('' when the
\* body has none)
IdleReq == [kind |-> "none", user |-> NoUser, pc |-> "idle", resp |-> 0, code |-> "",
            secret |-> NoSecret, calls |-> 0, found |-> 0, wh |-> NoWh, arg |-> NoArg,
            tasks |-> [p \in ProjectIds |-> NoTask]]

Init ==
  /\ projects = [p \in ProjectIds |-> Blank]
  /\ exists = {}
  /\ nextId = 1
  /\ remote = {}
  /\ now = 0
  /\ reqs = [r \in Slots |-> IdleReq]
  /\ probe = NoProbe

\* what is kept of a task once the response is out: its standing, its
\* counters and, for a refresh, the fields it computed
Finished(task, kind) ==
  [task EXCEPT !.base = Blank, !.snap = NoSnap, !.svc = "",
               !.cur = IF kind \in {"get", "list"} /\ task.st = "ok" THEN @ ELSE Blank]

\* res.status(n).json({code}) and return
Respond(req, status, code) ==
  [req EXCEPT !.pc = "done", !.resp = status, !.code = code,
              !.tasks = [p \in ProjectIds |-> Finished(req.tasks[p], req.kind)]]

\* The webhookSecret a success body carries: the webhook-config route sends
\* the whole document (data: project) and the webhook-secret route sends
\* project.webhookSecret; serializeProject, used by every other route,
\* has no such field.
Disclosed(kind, doc) ==
  IF kind \in {"config", "secret"} THEN doc.webhookSecret ELSE NoSecret

\* res.status(n).json({..., data}) built from the document doc
RespondWith(req, status, code, doc) ==
  [Respond(req, status, code) EXCEPT !.secret = Disclosed(req.kind, doc)]

\* a new request takes the first free slot
FreeSlot(r) == reqs[r].pc = "idle" /\ \A q \in Slots : q < r => reqs[q].pc # "idle"

getDeploymentServiceNetlifyOnly(provider) == "NetlifyService"

\* Project.ts lines 180-187 and routes/projects.ts lines 67-69: the client
\* is picked from the deploymentProvider field alone
getDeploymentService(provider) ==
  IF provider = "cloudflare" THEN "CloudflareService" ELSE "NetlifyService"

\* a task of the request starts awaiting a provider call on document p
AwaitProvider(req, p, doc) ==
  [req EXCEPT !.pc = "wait", !.calls = @ + 1,
              !.tasks[p] = [NoTask EXCEPT !.st = "provider", !.base = doc, !.cur = doc,
                              !.svc = getDeploymentService(doc.deploymentProvider)]]

\* a task of the request starts awaiting a save of document p
AwaitSave(req, p, base, cur) ==
  [req EXCEPT !.pc = "wait",
              !.tasks[p] = [NoTask EXCEPT !.st = "save", !.base = base, !.cur = cur]]

\* Project.findOne({githubRepo})
FindByRepo(repo) == {p \in exists : projects[p].githubRepo = repo}

\* Project.findOne({userId, name, _id: {$ne: self}})
FindByOwnerName(u, name, self) ==
  {p \in exists \ {self} : projects[p].owner = u /\ projects[p].name = name}

\* ------------------------------------------------ POST /webhook/github
GithubDecideVerifyFirst(req, evt, body, sig, p) ==
  IF evt # "push" THEN Respond(req, 200, "Event ignored")
  ELSE IF JsonParse(body).full_name = Missing THEN Respond(req, 400, "Invalid payload")
  ELSE IF sig.kind = "none" \/ p # 0
       THEN Respond([req EXCEPT !.found = p], 401, "WEBHOOK_SIGNATURE_INVALID")
  ELSE Respond(req, 404, "")

GithubDecideRejectingEvents(req, evt, body, sig, p) ==
  IF evt # "push" THEN Respond(req, 400, "Unsupported event")
  ELSE IF JsonParse(body).full_name = Missing THEN Respond(req, 400, "Invalid payload")
  ELSE IF p = 0 THEN Respond(req, 404, "")
  ELSE Respond([req EXCEPT !.found = p], 401, "WEBHOOK_SIGNATURE_INVALID")

\* routes/webhooks.ts lines 9-56: from arrival to the provider call; p is
\* the document findOne returned, 0 when it returned none
GithubDecide(req, evt, body, sig, p) ==
  LET payload == JsonParse(body)
      repoFullName == payload.full_name
  IN IF evt # "push" THEN Respond(req, 200, "Event ignored")
     ELSE IF repoFullName = Missing THEN Respond(req, 400, "Invalid payload")
     ELSE IF p = 0 THEN Respond(req, 404, "")
     ELSE LET project == Load(projects[p])
              isValid == verifyGitHubSignature(JsonStringify(payload), sig,
                                               project.webhookSecret)
              ref == payload.ref
              found == [req EXCEPT !.found = p, !.arg.branch = project.defaultBranch]
          IN IF ~isValid THEN Respond(found, 401, "WEBHOOK_SIGNATURE_INVALID")
             ELSE IF ref = Missing THEN Respond(found, 400, "Missing ref in payload")
             ELSE IF StripRefsHeads(ref) # project.defaultBranch
                  THEN Respond(found, 200, "Branch skipped")
                  ELSE AwaitProvider(found, p, project)

WebhookGithub(r, evt, body, sig) ==
  /\ FreeSlot(r)
  /\ LET req == [IdleReq EXCEPT !.kind = "webhook",
                                !.wh = [evt |-> evt, body |-> body, sig |-> sig]]
         hit == IF evt = "push" THEN FindByRepo(JsonParse(body).full_name) ELSE {}
     IN \E p \in (IF hit = {} THEN {0} ELSE hit) :
          reqs' = [reqs EXCEPT ![r] = GithubDecide(req, evt, body, sig, p)]
  /\ UNCHANGED <<probe, projects, exists, nextId, remote, now>>

\* ------------------------------------------------------- POST /projects
\* createProjectSchema's githubRepo regex and parseGithubRepo
ValidRepo(repo) == repo \in Repos

\* routes/projects.ts lines 83-135: from arrival to createDeployment;
\* credential is what getUserGitHubToken comes back with
CreateProjectWith(r, u, name, description, githubRepo, provider, credential) ==
  /\ FreeSlot(r)
  /\ nextId <= MaxCreate
  /\ LET req == [IdleReq EXCEPT !.kind = "create", !.user = u,
                   !.arg = [name |-> name, description |-> description,
                            githubRepo |-> githubRepo, provider |-> provider,
                            branch |-> ""]]
         starts == /\ ValidRepo(githubRepo)
                   /\ FindByOwnerName(u, name, 0) = {}
                   /\ ~credential.threw
                   /\ credential.value # ""
         doc == [Blank EXCEPT !.owner = u, !.name = name, !.description = description,
                              !.githubRepo = githubRepo, !.deploymentProvider = provider]
     IN /\ reqs' = [reqs EXCEPT ![r] =
             IF ~ValidRepo(githubRepo) THEN Respond(req, 400, "VALIDATION_ERROR")
             ELSE IF FindByOwnerName(u, name, 0) # {}
                  THEN Respond(req, 409, "PROJECT_NAME_EXISTS")
             ELSE IF credential.threw THEN Respond(req, 500, "SERVER_ERROR")
             ELSE IF credential.value = ""
                  THEN Respond(req, 401, "GITHUB_NOT_CONNECTED")
             ELSE AwaitProvider([req EXCEPT !.found = nextId], nextId, doc)]
        /\ nextId' = IF starts THEN nextId + 1 ELSE nextId
  /\ UNCHANGED <<probe, projects, exists, remote, now>>

\* POST /projects by a user whose credential is the stored one
CreateProject(r, u, name, description, githubRepo, provider) ==
  CreateProjectWith(r, u, name, description, githubRepo, provider,
                    getGitHubToken(UserCredential(u), ENCRYPTION_KEY))

\* -------------------------------------------------------- GET /projects
\* routes/projects.ts lines 189-211: find, then one status query per project
ListProjects(r, u) ==
  /\ FreeSlot(r)
  /\ LET req == [IdleReq EXCEPT !.kind = "list", !.user = u]
         mine == {p \in exists : projects[p].owner = u}
     IN reqs' = [reqs EXCEPT ![r] =
          IF mine = {} THEN Respond(req, 200, "success")
          ELSE [req EXCEPT !.pc = "wait", !.calls = Cardinality(mine),
                  !.tasks = [p \in ProjectIds |->
                     IF p \in mine
                     THEN [NoTask EXCEPT !.st = "provider", !.base = Load(projects[p]),
                                         !.cur = Load(projects[p]),
                                         !.svc = getDeploymentService(
                                                   projects[p].deploymentProvider)]
                     ELSE NoTask]]]
  /\ UNCHANGED <<probe, projects, exists, nextId, remote, now>>

OwnerGateForAnyUser(req, u, p, onward) ==
  IF p \notin exists THEN Respond(req, 404, "PROJECT_NOT_FOUND") ELSE onward

\* findById, 404 when absent, 403 when the caller is not the owner
\* (routes/projects.ts lines 238-253 and the verifyOwnership middleware)
OwnerGate(req, u, p, onward) ==
  IF p \notin exists THEN Respond(req, 404, "PROJECT_NOT_FOUND")
  ELSE IF projects[p].owner # u THEN Respond(req, 403, "INSUFFICIENT_PERMISSIONS")
  ELSE onward

\* --------------------------------------------- GET /projects/:projectId
GetProject(r, u, p) ==
  /\ FreeSlot(r)
  /\ LET req == [IdleReq EXCEPT !.kind = "get", !.user = u, !.found = p]
     IN reqs' = [reqs EXCEPT ![r] =
          OwnerGate(req, u, p, AwaitProvider(req, p, Load(projects[p])))]
  /\ UNCHANGED <<probe, projects, exists, nextId, remote, now>>

\* ---------------------------------------- GET /projects/:projectId/logs
\* routes/projects.ts lines 295-337: from arrival to getDeploymentLogs
GetLogs(r, u, p) ==
  /\ FreeSlot(r)
  /\ LET req == [IdleReq EXCEPT !.kind = "logs", !.user = u, !.found = p]
     IN reqs' = [reqs EXCEPT ![r] =
          OwnerGate(req, u, p, AwaitProvider(req, p, Load(projects[p])))]
  /\ UNCHANGED <<probe, projects, exists, nextId, remote, now>>

\* ------------------------------------------- PATCH /projects/:projectId
\* name and description are optional (Missing when not sent)
PatchProject(r, u, p, name, description) ==
  /\ FreeSlot(r)
  /\ LET req == [IdleReq EXCEPT !.kind = "patch", !.user = u, !.found = p,
                   !.arg = [NoArg EXCEPT !.name = name, !.description = description]]
         project == Load(projects[p])
         renames == name # Missing /\ name # project.name
         named == IF renames THEN [project EXCEPT !.name = name] ELSE project
         edited == IF description # Missing
                   THEN [named EXCEPT !.description = description] ELSE named
     IN reqs' = [reqs EXCEPT ![r] =
          IF name = Missing /\ description = Missing
          THEN Respond(req, 400, "VALIDATION_ERROR")
          ELSE OwnerGate(req, u, p,
                 IF renames /\ FindByOwnerName(u, name, p) # {}
                 THEN Respond(req, 409, "PROJECT_NAME_EXISTS")
                 ELSE AwaitSave(req, p, project, edited))]
  /\ UNCHANGED <<probe, projects, exists, nextId, remote, now>>

\* ------------------------------------------ DELETE /projects/:projectId
\* routes/projects.ts lines 468-498: from arrival to deleteDeployment
DeleteProject(r, u, p) ==
  /\ FreeSlot(r)
  /\ LET req == [IdleReq EXCEPT !.kind = "delete", !.user = u, !.found = p]
     IN reqs' = [reqs EXCEPT ![r] =
          OwnerGate(req, u, p, AwaitProvider(req, p, Load(projects[p])))]
  /\ UNCHANGED <<probe, projects, exists, nextId, remote, now>>

\* ------------------------------- POST /projects/:projectId/webhook-config
WebhookConfig(r, u, p, defaultBranch) ==
  /\ FreeSlot(r)
  /\ LET req == [IdleReq EXCEPT !.kind = "config", !.user = u, !.found = p,
                   !.arg = [NoArg EXCEPT !.branch = defaultBranch]]
         project == Load(projects[p])
     IN reqs' = [reqs EXCEPT ![r] =
          OwnerGate(req, u, p,
            AwaitSave(req, p, project, [project EXCEPT !.defaultBranch = defaultBranch]))]
  /\ UNCHANGED <<probe, projects, exists, nextId, remote, now>>

\* -------------------------------- GET /projects/:projectId/webhook-secret
WebhookSecret(r, u, p) ==
  /\ FreeSlot(r)
  /\ LET req == [IdleReq EXCEPT !.kind = "secret", !.user = u, !.found = p]
     IN reqs' = [reqs EXCEPT ![r] =
          OwnerGate(req, u, p, RespondWith(req, 200, "success", Load(projects[p])))]
  /\ UNCHANGED <<probe, projects, exists, nextId, remote, now>>

\* ------------------------------------------------------- provider calls
\* What a provider client call can come back with: a value, a
\* CloudflareError / NetlifyError (non-2xx answer, client not configured),
\* or any other exception (fetch itself rejecting).
NoRes == [out |-> "ok", snap |-> NoSnap, url |-> NoUrl, at |-> 0]
Errors == {"provider_error", "other_error"}
\* ensureConfigured throws CloudflareError / NetlifyError with statusCode
\* 500 before fetch is called
NotConfigured == [NoRes EXCEPT !.out = "not_configured"]

\* cloudflareService derives url from the subdomain, so it is never empty;
\* netlifyService yields '' for both urls when the site carries none
SnapshotsOf(service) ==
  {s \in Snapshots :
     /\ service = "CloudflareService" => s.url # NoUrl
     /\ s.url # NoUrl <=> s.deploymentUrl # NoUrl}

CreatedUrls(service) ==
  IF service = "CloudflareService" THEN {"https://a"} ELSE {"https://a", NoUrl}

ProviderResults(req, p) ==
  LET doc == req.tasks[p].base
      alive == doc.deploymentId \in remote
  IN {[NoRes EXCEPT !.out = e] : e \in Errors}
     \cup {NotConfigured}
     \cup
     CASE req.kind = "create" ->
            {[NoRes EXCEPT !.url = u, !.at = t] :
               u \in CreatedUrls(req.tasks[p].svc), t \in {0, now}}
       [] req.kind \in {"get", "list"} ->
            IF alive
            THEN {[NoRes EXCEPT !.snap = s] : s \in SnapshotsOf(req.tasks[p].svc)}
            ELSE {}
       [] OTHER -> IF alive THEN {NoRes} ELSE {}

\* Project.ts lines 197-201: the assignments of getDeploymentStatus
RefreshAssign(doc, status) ==
  [doc EXCEPT !.status = normalizeProjectStatus(status.status),
              !.deploymentUrl = OrElse(status.deploymentUrl,
                                       OrElse(status.url, doc.deploymentUrl)),
              !.lastDeploymentTime = status.lastDeployed]

\* Project.ts lines 212-213 and webhooks.ts lines 59-60
RedeployAssign(doc, t) == [doc EXCEPT !.status = "deploying", !.lastDeploymentTime = t]

NewProjectIdle(doc, p, res) ==
  [doc EXCEPT !.deploymentId = DepOf(p), !.status = "idle",
              !.deploymentUrl = res.url, !.webhookSecret = SecretOf(p),
              !.lastDeploymentTime = res.at, !.defaultBranch = "main"]

NewProjectGuessedUrl(doc, p, res) ==
  [doc EXCEPT !.deploymentId = DepOf(p), !.status = "deploying",
              !.deploymentUrl = "https://b", !.webhookSecret = SecretOf(p),
              !.lastDeploymentTime = res.at, !.defaultBranch = "main"]

\* routes/projects.ts lines 137-150: the document built after createDeployment
NewProject(doc, p, res) ==
  [doc EXCEPT !.deploymentId = DepOf(p), !.status = "deploying",
              !.deploymentUrl = res.url, !.webhookSecret = SecretOf(p),
              !.lastDeploymentTime = res.at, !.defaultBranch = "main"]

\* the catch blocks that tell provider errors (502) from the rest (500):
\* they test instanceof CloudflareError / NetlifyError, not statusCode
ProviderFailure(req, res) ==
  IF res.out \in {"provider_error", "not_configured"}
  THEN Respond(req, 502, "DEPLOYMENT_FAILED")
  ELSE Respond(req, 500, "SERVER_ERROR")

TaskTo(req, p, st) == [req EXCEPT !.tasks[p].st = st]

\* Promise.allSettled: GET /projects answers once every refresh has settled
Settle(req) ==
  IF \A q \in ProjectIds : req.tasks[q].st \in {"none", "ok", "err", "dberr"}
  THEN Respond(req, 200, "success")
  ELSE req

\* getDeploymentStatus has its snapshot: assign and go on to this.save()
Refreshed(req, p, res) ==
  [req EXCEPT !.tasks[p].cur = RefreshAssign(req.tasks[p].cur, res.snap),
              !.tasks[p].snap = res.snap,
              !.tasks[p].st = "save"]

\* webhooks.ts line 58 into Project.ts lines 209-214, and the catch of
\* webhooks.ts lines 69-72
GithubAfterTrigger(req, p, res) ==
  IF res.out = "ok"
  THEN [req EXCEPT !.tasks[p].cur = RedeployAssign(req.tasks[p].cur, now),
                   !.tasks[p].st = "save"]
  ELSE Respond(TaskTo(req, p, "err"), 500, "Internal server error")

GetAfterStatusMarkingFailed(req, p, res) ==
  IF res.out = "ok"
  THEN Refreshed(req, p, res)
  ELSE [req EXCEPT !.tasks[p].cur.status = "failed", !.tasks[p].st = "save"]

\* routes/projects.ts lines 255-279
GetAfterStatus(req, p, res) ==
  IF res.out = "ok"
  THEN Refreshed(req, p, res)
  ELSE ProviderFailure(TaskTo(req, p, "err"), res)

ListAfterStatusAborting(req, p, res) ==
  IF res.out = "ok"
  THEN Refreshed(req, p, res)
  ELSE ProviderFailure(TaskTo(req, p, "err"), res)

\* routes/projects.ts lines 203-210
ListAfterStatus(req, p, res) ==
  IF res.out = "ok"
  THEN Refreshed(req, p, res)
  ELSE Settle(TaskTo(req, p, "err"))

DeleteAfterProviderAnyway(req, p, res) == TaskTo(req, p, "remove")

\* routes/projects.ts lines 496-515
DeleteAfterProvider(req, p, res) ==
  IF res.out = "ok"
  THEN TaskTo(req, p, "remove")
  ELSE ProviderFailure(TaskTo(req, p, "err"), res)

\* routes/projects.ts lines 336-366
LogsAfterProvider(req, p, res) ==
  IF res.out = "ok"
  THEN Respond(TaskTo(req, p, "ok"), 200, "success")
  ELSE ProviderFailure(TaskTo(req, p, "err"), res)

\* routes/projects.ts lines 131-152 and the catch of lines 162-181
CreateAfterProvider(req, p, res) ==
  IF res.out = "ok"
  THEN [req EXCEPT !.tasks[p].cur = NewProject(req.tasks[p].cur, p, res),
                   !.tasks[p].snap = [NoSnap EXCEPT !.url = res.url],
                   !.tasks[p].st = "insert"]
  ELSE ProviderFailure(TaskTo(req, p, "err"), res)

\* the handler's continuation when its provider call returns
AfterProvider(req, p, res) ==
  CASE req.kind = "webhook" -> GithubAfterTrigger(req, p, res)
    [] req.kind = "get" -> GetAfterStatus(req, p, res)
    [] req.kind = "list" -> ListAfterStatus(req, p, res)
    [] req.kind = "delete" -> DeleteAfterProvider(req, p, res)
    [] req.kind = "logs" -> LogsAfterProvider(req, p, res)
    [] OTHER -> CreateAfterProvider(req, p, res)

\* the outstanding provider call of task p of request r returns res
ProviderRespond(r, p, res) ==
  /\ reqs[r].tasks[p].st = "provider"
  /\ res \in ProviderResults(reqs[r], p)
  /\ reqs' = [reqs EXCEPT ![r] =
                AfterProvider([reqs[r] EXCEPT !.tasks[p].out = res.out], p, res)]
  /\ remote' = IF res.out # "ok" THEN remote
               ELSE IF reqs[r].kind = "create" THEN remote \cup {DepOf(p)}
               ELSE IF reqs[r].kind = "delete"
                    THEN remote \ {reqs[r].tasks[p].base.deploymentId}
               ELSE remote
  /\ UNCHANGED <<probe, projects, exists, nextId, now>>

\* ------------------------------------------------------ database writes
\* A save with no modified path sends nothing.  Otherwise it fails when
\* the database call fails, when the document is gone
\* (DocumentNotFoundError) or when the unique index on (owner, name)
\* rejects it (E11000).
SaveHasWrite(task) == ModifiedPaths(task.base, task.cur) # {}

SaveSucceeds(p, task, out) ==
  \/ ~SaveHasWrite(task)
  \/ /\ out = "ok"
     /\ p \in exists
     /\ \/ task.cur.name = task.base.name
        \/ FindByOwnerName(projects[p].owner, task.cur.name, p) = {}

\* new Project(...).save(): schema validation (deploymentUrl is required),
\* then the unique indexes on (owner, name) and on githubRepo
InsertOutcome(p, task, out) ==
  IF task.cur.deploymentUrl = NoUrl THEN "invalid"
  ELSE IF out # "ok" THEN "db_error"
  ELSE IF \/ FindByOwnerName(task.cur.owner, task.cur.name, p) # {}
          \/ FindByRepo(task.cur.githubRepo) \ {p} # {}
       THEN "duplicate"
  ELSE "ok"

\* routes/projects.ts lines 152-161 and the catch of lines 162-181
CreateAfterInsert(req, p, insertOutcome) ==
  IF insertOutcome = "ok" THEN Respond(TaskTo(req, p, "ok"), 201, "success")
  ELSE IF insertOutcome = "duplicate"
       THEN Respond(TaskTo(req, p, "dberr"), 409, "PROJECT_NAME_EXISTS")
  ELSE Respond(TaskTo(req, p, "dberr"), 500, "SERVER_ERROR")

\* routes/projects.ts lines 515-534
DeleteAfterRemove(req, p, good) ==
  IF good THEN Respond(TaskTo(req, p, "ok"), 200, "success")
  ELSE Respond(TaskTo(req, p, "dberr"), 500, "SERVER_ERROR")

\* the document in memory is clean again after a successful save
Saved(req, p) == [req EXCEPT !.tasks[p].base = req.tasks[p].cur, !.tasks[p].st = "ok"]

\* Project.ts line 214 back into webhooks.ts lines 59-61
GithubAfterModelSave(req, p, good) ==
  IF good
  THEN [Saved(req, p) EXCEPT !.tasks[p].cur = RedeployAssign(req.tasks[p].cur, now),
                             !.tasks[p].st = "save2"]
  ELSE Respond(TaskTo(req, p, "dberr"), 500, "Internal server error")

\* webhooks.ts lines 61-72
GithubAfterSave(req, p, good) ==
  IF good THEN Respond(Saved(req, p), 200, "REDEPLOY_TRIGGERED")
  ELSE Respond(TaskTo(req, p, "dberr"), 500, "Internal server error")

\* routes/projects.ts lines 203-218
ListAfterSave(req, p, good) ==
  IF good THEN Settle(Saved(req, p)) ELSE Settle(TaskTo(req, p, "dberr"))

\* the webhook-config route awaits save() outside any try block: a
\* rejected save leaves the request without a response
ConfigAfterSave(req, p, good) ==
  IF good THEN RespondWith(Saved(req, p), 200, "success", req.tasks[p].cur)
  ELSE Respond(TaskTo(req, p, "dberr"), 0, "unhandled rejection")

\* routes/projects.ts lines 256-279 (get) and 445-461 (patch)
RouteAfterSave(req, p, good) ==
  IF good THEN Respond(Saved(req, p), 200, "success")
  ELSE Respond(TaskTo(req, p, "dberr"), 500, "SERVER_ERROR")

\* the handler's continuation when its save / deleteOne returns
AfterStore(req, p, good, insertOutcome) ==
  LET st == req.tasks[p].st
  IN CASE st = "insert" -> CreateAfterInsert(req, p, insertOutcome)
       [] st = "remove" -> DeleteAfterRemove(req, p, good)
       [] req.kind = "webhook" /\ st = "save" -> GithubAfterModelSave(req, p, good)
       [] req.kind = "webhook" /\ st = "save2" -> GithubAfterSave(req, p, good)
       [] req.kind = "list" -> ListAfterSave(req, p, good)
       [] req.kind = "config" -> ConfigAfterSave(req, p, good)
       [] OTHER -> RouteAfterSave(req, p, good)

\* the outstanding save / deleteOne of task p of request r returns
StoreComplete(r, p, out) ==
  LET task == reqs[r].tasks[p]
      insertOutcome == InsertOutcome(p, task, out)
      good == CASE task.st = "insert" -> insertOutcome = "ok"
                [] task.st = "remove" -> out = "ok"
                [] OTHER -> SaveSucceeds(p, task, out)
      writes == CASE task.st = "insert" -> good
                  [] task.st = "remove" -> good /\ p \in exists
                  [] OTHER -> good /\ SaveHasWrite(task)
  IN /\ task.st \in {"save", "save2", "insert", "remove"}
     /\ reqs' = [reqs EXCEPT ![r] =
          AfterStore([reqs[r] EXCEPT !.tasks[p].w = IF writes THEN @ + 1 ELSE @],
                     p, good, insertOutcome)]
     /\ projects' =
          IF ~writes THEN projects
          ELSE CASE task.st = "insert" -> [projects EXCEPT ![p] = task.cur]
                 [] task.st = "remove" -> [projects EXCEPT ![p] = Blank]
                 [] OTHER -> [projects EXCEPT ![p] = Merge(@, task.base, task.cur)]
     /\ exists' =
          IF ~writes THEN exists
          ELSE CASE task.st = "insert" -> exists \cup {p}
                 [] task.st = "remove" -> exists \ {p}
                 [] OTHER -> exists
     /\ UNCHANGED <<probe, nextId, remote, now>>

\* ------------------------------------------------------------ the clock
Tick ==
  /\ now < MaxTime
  /\ now' = now + 1
  /\ UNCHANGED <<probe, projects, exists, nextId, remote, reqs>>

\* the response has been delivered; the slot serves the next request
Retire(r) ==
  /\ reqs[r].pc = "done"
  /\ reqs' = [reqs EXCEPT ![r] = IdleReq]
  /\ UNCHANGED <<probe, projects, exists, nextId, remote, now>>

\* ------------------------------------------------------------- requests
\* the secret GitHub was given for the repository a body names
SenderKey(body) ==
  LET hit == FindByRepo(body.json.full_name)
  IN IF hit = {} THEN NoSecret ELSE projects[CHOOSE p \in hit : TRUE].webhookSecret

\* a well-formed push body for the first repository
SiteBody == [json |-> [ref |-> "refs/heads/main", full_name |-> "acme/site"],
             form |-> "compact"]

Deliveries ==
  {<<"ping", NoBody, NoSig>>, <<"ping", NoBody, DeadBeef>>, <<Missing, NoBody, NoSig>>}
  \cup {<<"ping", SiteBody, sig>> : sig \in SigsFor(SiteBody, SenderKey(SiteBody)) \ {NoSig}}
  \cup {<<"push", b, sig>> : b \in {NoBody}, sig \in {NoSig, DeadBeef}}
  \cup UNION {{<<"push", b, sig>> : sig \in SigsFor(b, SenderKey(b))} :
               b \in {x \in Bodies : x.json.full_name # Missing}}

CreateInputs ==
  {<<"u1", "alpha", "acme/site", "cloudflare">>,
   <<"u1", "beta", "acme/blog", "netlify">>,
   <<"u2", "alpha", "acme/site", "cloudflare">>,
   <<"u1", "alpha", "acme", "cloudflare">>}

PatchInputs == {<<"beta", Missing>>, <<"alpha", Missing>>, <<Missing, "edited">>,
                <<Missing, Missing>>}

ProviderAnswers ==
  {[NoRes EXCEPT !.out = e] : e \in Errors}
  \cup {[NoRes EXCEPT !.snap = s] : s \in Snapshots}
  \cup {[NoRes EXCEPT !.url = u, !.at = t] : u \in Urls \cup {NoUrl}, t \in Times}

DoWebhookGithub ==
  \E r \in Slots, d \in Deliveries : WebhookGithub(r, d[1], d[2], d[3])

DoCreateProject ==
  \E r \in Slots, in \in CreateInputs :
    CreateProject(r, in[1], in[2], "", in[3], in[4])

DoListProjects == \E r \in Slots, u \in Users : ListProjects(r, u)

DoGetProject == \E r \in Slots, u \in Users, p \in ProjectIds : GetProject(r, u, p)

DoPatchProject ==
  \E r \in Slots, u \in Users, p \in ProjectIds, in \in PatchInputs :
    PatchProject(r, u, p, in[1], in[2])

DoDeleteProject == \E r \in Slots, u \in Users, p \in ProjectIds : DeleteProject(r, u, p)

DoWebhookConfig ==
  \E r \in Slots, u \in Users, p \in ProjectIds, b \in Branches : WebhookConfig(r, u, p, b)

DoWebhookSecret ==
  \E r \in Slots, u \in Users, p \in ProjectIds : WebhookSecret(r, u, p)

DoProviderRespond ==
  \E r \in Slots, p \in ProjectIds, res \in ProviderAnswers : ProviderRespond(r, p, res)

DoStoreComplete ==
  \E r \in Slots, p \in ProjectIds, out \in {"ok", "db_error"} : StoreComplete(r, p, out)

DoRetire == \E r \in Slots : Retire(r)

\* creation and status refresh (list, get)
Next ==
  \/ DoCreateProject
  \/ DoListProjects
  \/ DoGetProject
  \/ DoProviderRespond
  \/ DoStoreComplete
  \/ DoRetire

Spec == Init /\ [][Next]_vars

\* creation, metadata edits and deletion
NextManage ==
  \/ DoCreateProject
  \/ DoPatchProject
  \/ DoDeleteProject
  \/ DoProviderRespond
  \/ DoStoreComplete
  \/ Tick
  \/ DoRetire

SpecManage == Init /\ [][NextManage]_vars

\* the webhook routes on top of project creation
NextWebhook ==
  \/ DoCreateProject
  \/ DoWebhookConfig
  \/ DoWebhookSecret
  \/ DoWebhookGithub
  \/ DoProviderRespond
  \/ DoStoreComplete
  \/ Tick
  \/ DoRetire

SpecWebhook == Init /\ [][NextWebhook]_vars

\* ------------------------------------ verifyGitHubSignature on its own
\* payload strings, header values and secrets a caller can pass
VerifyPayloads ==
  {EmptyText} \cup {b \in Bodies : b.json.full_name = "acme/site" /\ b.json.ref # Missing}

VerifySecrets == {NoSecret, SecretOf(1), SecretOf(2)}

VerifySignatures ==
  {NoSig, DeadBeef} \cup {Hmac(b, k) : b \in VerifyPayloads, k \in VerifySecrets}

InitVerify ==
  /\ projects = [p \in ProjectIds |-> Blank]
  /\ exists = {}
  /\ nextId = 1
  /\ remote = {}
  /\ now = 0
  /\ reqs = [r \in Slots |-> IdleReq]
  /\ probe \in [st : {"call"}, payload : VerifyPayloads, signature : VerifySignatures,
                secret : VerifySecrets, result : {FALSE}]

\* the call returns
VerifyReturn ==
  /\ probe.st = "call"
  /\ probe' = [probe EXCEPT !.st = "returned",
                 !.result = verifyGitHubSignature(probe.payload, probe.signature,
                                                  probe.secret)]
  /\ UNCHANGED <<projects, exists, nextId, remote, now, reqs>>

NextVerify == VerifyReturn

SpecVerify == InitVerify /\ [][NextVerify]_vars

\* ------------------------------------------ GET /projects, two projects
\* the user u1 has created two projects, one with each provider
StoredProject(p, name, githubRepo, provider) ==
  NewProject([Blank EXCEPT !.owner = "u1", !.name = name, !.githubRepo = githubRepo,
                           !.deploymentProvider = provider],
             p, [NoRes EXCEPT !.url = "https://a"])

InitList ==
  /\ projects = [p \in ProjectIds |->
                   CASE p = 1 -> StoredProject(1, "alpha", "acme/site", "cloudflare")
                     [] p = 2 -> StoredProject(2, "beta", "acme/blog", "netlify")
                     [] OTHER -> Blank]
  /\ exists = {1, 2}
  /\ nextId = 3
  /\ remote = {DepOf(1), DepOf(2)}
  /\ now = 0
  /\ reqs = [r \in Slots |-> IdleReq]
  /\ probe = NoProbe

\* what the status queries of a listing come back with: either failure,
\* or a snapshot of a finished build
ListAnswers ==
  {[NoRes EXCEPT !.out = e] : e \in Errors}
  \cup {[NoRes EXCEPT !.snap = s] :
          s \in {x \in Snapshots : x.url # NoUrl /\ x.deploymentUrl # NoUrl
                                    /\ x.lastDeployed = 1 /\ x.status # "deploying"}}

DoListStatusRespond ==
  \E r \in Slots, p \in ProjectIds, res \in ListAnswers : ProviderRespond(r, p, res)

NextList ==
  \/ DoListProjects
  \/ DoListStatusRespond
  \/ DoStoreComplete
  \/ DoRetire

SpecList == InitList /\ [][NextList]_vars

\* ------------------------------------- coerceStatus of the two clients
\* A string is the sequence of its characters.
LowerChar(c) ==
  CASE c = "A" -> "a"
    [] c = "B" -> "b"
    [] c = "C" -> "c"
    [] c = "D" -> "d"
    [] c = "E" -> "e"
    [] c = "F" -> "f"
    [] c = "G" -> "g"
    [] c = "H" -> "h"
    [] c = "I" -> "i"
    [] c = "J" -> "j"
    [] c = "K" -> "k"
    [] c = "L" -> "l"
    [] c = "M" -> "m"
    [] c = "N" -> "n"
    [] c = "O" -> "o"
    [] c = "P" -> "p"
    [] c = "Q" -> "q"
    [] c = "R" -> "r"
    [] c = "S" -> "s"
    [] c = "T" -> "t"
    [] c = "U" -> "u"
    [] c = "V" -> "v"
    [] c = "W" -> "w"
    [] c = "X" -> "x"
    [] c = "Y" -> "y"
    [] c = "Z" -> "z"
    [] OTHER -> c

\* String.prototype.toLowerCase
LowerCase(text) == [i \in 1..Len(text) |-> LowerChar(text[i])]

\* String.prototype.includes
Includes(text, part) ==
  \E i \in 1..(Len(text) - Len(part) + 1) : SubSeq(text, i, i + Len(part) - 1) = part

IncludesAny(text, parts) == \E part \in parts : Includes(text, part)

\* the keywords each client looks for
DeployedWords(provider) ==
  IF provider = "cloudflare"
  THEN {<<"s", "u", "c", "c", "e", "s", "s">>, <<"a", "c", "t", "i", "v", "e">>, <<"r", "e", "a", "d", "y">>}
  ELSE {<<"c", "u", "r", "r", "e", "n", "t">>, <<"r", "e", "a", "d", "y">>, <<"p", "u", "b", "l", "i", "s", "h", "e", "d">>}

FailedWords(provider) ==
  IF provider = "cloudflare"
  THEN {<<"f", "a", "i", "l">>, <<"e", "r", "r", "o", "r">>}
  ELSE {<<"e", "r", "r", "o", "r">>, <<"f", "a", "i", "l", "e", "d">>}

coerceStatusFailingUnknown(provider, value) ==
  IF ~value.isString THEN "deploying"
  ELSE IF IncludesAny(LowerCase(value.text), DeployedWords(provider)) THEN "deployed"
  ELSE "failed"

\* coerceStatus of cloudflareService and of netlifyService
coerceStatus(provider, value) ==
  IF ~value.isString THEN "deploying"
  ELSE LET v == LowerCase(value.text)
       IN IF IncludesAny(v, DeployedWords(provider)) THEN "deployed"
          ELSE IF IncludesAny(v, FailedWords(provider)) THEN "failed"
          ELSE "deploying"

\* raw status values a provider answer can carry: strings, and values that
\* are not strings (undefined, a number)
RawTexts ==
  {<<"s", "u", "c", "c", "e", "s", "s">>,
   <<"S", "U", "C", "C", "E", "S", "S">>,
   <<"S", "u", "c", "c", "e", "s", "s">>,
   <<"a", "c", "t", "i", "v", "e">>,
   <<"i", "n", "a", "c", "t", "i", "v", "e">>,
   <<"r", "e", "a", "d", "y">>,
   <<"R", "e", "a", "d", "y">>,
   <<"n", "o", "t", "_", "r", "e", "a", "d", "y">>,
   <<"f", "a", "i", "l">>,
   <<"f", "a", "i", "l", "u", "r", "e">>,
   <<"f", "a", "i", "l", "e", "d">>,
   <<"F", "A", "I", "L", "E", "D">>,
   <<"b", "u", "i", "l", "d", "_", "f", "a", "i", "l", "e", "d">>,
   <<"e", "r", "r", "o", "r">>,
   <<"E", "r", "r", "o", "r">>,
   <<"e", "r", "r", "o", "r", "e", "d">>,
   <<"c", "a", "n", "c", "e", "l", "e", "d">>,
   <<"c", "a", "n", "c", "e", "l", "l", "e", "d">>,
   <<"q", "u", "e", "u", "e", "d">>,
   <<"b", "u", "i", "l", "d", "i", "n", "g">>,
   <<"i", "n", "i", "t", "i", "a", "l", "i", "z", "e">>,
   <<"d", "e", "p", "l", "o", "y">>,
   <<"i", "d", "l", "e">>,
   <<"c", "u", "r", "r", "e", "n", "t">>,
   <<"p", "u", "b", "l", "i", "s", "h", "e", "d">>,
   <<"u", "n", "p", "u", "b", "l", "i", "s", "h", "e", "d">>,
   <<"n", "e", "w">>,
   <<"s", "k", "i", "p", "p", "e", "d">>,
   <<>>,
   <<"u", "p", "l", "o", "a", "d", "i", "n", "g">>,
   <<"p", "r", "e", "p", "a", "r", "e", "d">>,
   <<"p", "r", "o", "c", "e", "s", "s", "i", "n", "g">>}

RawStatuses ==
  {[isString |-> TRUE, text |-> t] : t \in RawTexts}
  \cup {[isString |-> FALSE, text |-> <<>>], [isString |-> FALSE, text |-> <<"4", "2">>]}

InitCoerce ==
  /\ projects = [p \in ProjectIds |-> Blank]
  /\ exists = {}
  /\ nextId = 1
  /\ remote = {}
  /\ now = 0
  /\ reqs = [r \in Slots |-> IdleReq]
  /\ probe \in [st : {"call"}, provider : DeploymentProvider, value : RawStatuses,
                result : {""}]

\* the call returns
CoerceReturn ==
  /\ probe.st = "call"
  /\ probe' = [probe EXCEPT !.st = "returned",
                            !.result = coerceStatus(probe.provider, probe.value)]
  /\ UNCHANGED <<projects, exists, nextId, remote, now, reqs>>

NextCoerce == CoerceReturn

SpecCoerce == InitCoerce /\ [][NextCoerce]_vars

\* --------------------------------- PATCH /projects/:projectId, renames
\* bodies that rename to a name nobody has, to the name of the other
\* project, or only edit the description
RenameInputs == {<<"gamma", Missing>>, <<"beta", Missing>>, <<Missing, "edited">>}

DoRenameProject ==
  \E r \in Slots, u \in Users, p \in ProjectIds, in \in RenameInputs :
    PatchProject(r, u, p, in[1], in[2])

\* the database is reachable: a save is refused only by the unique index
DoStoreAnswer == \E r \in Slots, p \in ProjectIds : StoreComplete(r, p, "ok")

NextRename ==
  \/ DoRenameProject
  \/ DoStoreAnswer
  \/ DoRetire

\* the two projects of u1 are stored; requests edit them
SpecRename == InitList /\ [][NextRename]_vars

\* ------------------------------------ the routes on one stored project
DoGetLogs == \E r \in Slots, u \in Users, p \in ProjectIds : GetLogs(r, u, p)

\* what the provider calls of these routes come back with: a failure,
\* the snapshot of a finished build, or the plain success of a delete or
\* of a log fetch
ByIdAnswers ==
  {[NoRes EXCEPT !.out = e] : e \in Errors}
  \cup {NoRes,
        [NoRes EXCEPT !.snap = [status |-> "deployed", url |-> "https://a",
                                deploymentUrl |-> "https://b", lastDeployed |-> 0]]}

\* the body of the metadata edit
ByIdEdits == {<<"gamma", Missing>>}

DoEditProject ==
  \E r \in Slots, u \in Users, p \in ProjectIds, in \in ByIdEdits :
    PatchProject(r, u, p, in[1], in[2])

DoConfigureWebhook ==
  \E r \in Slots, u \in Users, p \in ProjectIds : WebhookConfig(r, u, p, "develop")

DoByIdRespond ==
  \E r \in Slots, p \in ProjectIds, res \in ByIdAnswers : ProviderRespond(r, p, res)

NextById ==
  \/ DoGetProject
  \/ DoGetLogs
  \/ DoEditProject
  \/ DoDeleteProject
  \/ DoConfigureWebhook
  \/ DoByIdRespond
  \/ DoStoreAnswer
  \/ DoRetire

\* the two projects of u1 are stored; u1 and u2 call the routes on them
SpecById == InitList /\ [][NextById]_vars

\* ------------------------------------------ the vault functions alone
\* One experiment: setGitHubToken(token) on a user whose field held old,
\* with the key, salt and nonce of that moment; the stored blob is then
\* altered at rest (or left alone) and read back with the key of that
\* later moment.
Sealed(token, salt, iv) == encryptToken(token, ENCRYPTION_KEY, salt, iv).value

\* ways to alter a stored blob: one part replaced by the same part of
\* another sealed blob, or a bit of the tag or of the data flipped
Tampers ==
  {[part |-> x, donor |-> NoBlob] : x \in {"none", "tag_flip", "data_flip"}}
  \cup {[part |-> x, donor |-> Sealed(t, sa, n)] :
          x \in {"salt", "iv", "tag", "data"}, t \in Tokens, sa \in Salts, n \in Ivs}

Tamper(blob, how) ==
  IF blob = NoBlob THEN NoBlob
  ELSE CASE how.part = "salt" -> [blob EXCEPT !.salt = how.donor.salt]
         [] how.part = "iv" -> [blob EXCEPT !.iv = how.donor.iv]
         [] how.part = "tag" -> [blob EXCEPT !.tag = how.donor.tag]
         [] how.part = "data" -> [blob EXCEPT !.data = how.donor.data]
         [] how.part = "tag_flip" -> [blob EXCEPT !.tag.iv = "flipped"]
         [] how.part = "data_flip" -> [blob EXCEPT !.data.plain = Garbage]
         [] OTHER -> blob

NoOutcome == [threw |-> FALSE, value |-> ""]
NoStored == [threw |-> FALSE, value |-> NoBlob]

VaultInputs(tokens, salts, ivs, olds, tampers) ==
  [st : {"call"}, token : tokens, writeKey : {ENCRYPTION_KEY, NoKey},
   readKey : {ENCRYPTION_KEY, NoKey}, salt : salts, iv : ivs, old : olds,
   tamper : tampers, set : {NoStored}, kept : {NoBlob}, plain : {NoOutcome},
   got : {NoOutcome}]

InitVault ==
  /\ projects = [p \in ProjectIds |-> Blank]
  /\ exists = {}
  /\ nextId = 1
  /\ remote = {}
  /\ now = 0
  /\ reqs = [r \in Slots |-> IdleReq]
  /\ probe \in VaultInputs(Tokens \cup {""}, Salts, Ivs,
                           {NoBlob, Sealed("gho_2", "s2", "n2")}, Tampers)

\* setGitHubToken returns or throws
VaultSet ==
  /\ probe.st = "call"
  /\ probe' = [probe EXCEPT !.st = "stored",
                 !.set = setGitHubToken(probe.old, probe.token, probe.writeKey,
                                        probe.salt, probe.iv)]
  /\ UNCHANGED <<projects, exists, nextId, remote, now, reqs>>

\* the stored blob is altered at rest
VaultTamper ==
  /\ probe.st = "stored"
  /\ probe' = [probe EXCEPT !.st = "kept", !.kept = Tamper(probe.set.value, probe.tamper)]
  /\ UNCHANGED <<projects, exists, nextId, remote, now, reqs>>

\* decryptToken and getGitHubToken are called on what is stored
VaultGet ==
  /\ probe.st = "kept"
  /\ probe' = [probe EXCEPT !.st = "returned",
                 !.plain = decryptToken(probe.kept, probe.readKey),
                 !.got = getGitHubToken(probe.kept, probe.readKey)]
  /\ UNCHANGED <<projects, exists, nextId, remote, now, reqs>>

NextVault ==
  \/ VaultSet
  \/ VaultTamper
  \/ VaultGet

SpecVault == InitVault /\ [][NextVault]_vars

\* ------------------------------- POST /projects on a stored credential
\* u1 connects GitHub (or fails to), the stored blob may be altered, and
\* u1 then creates projects: getUserGitHubToken reads what is stored
InitConnect ==
  /\ projects = [p \in ProjectIds |-> Blank]
  /\ exists = {}
  /\ nextId = 1
  /\ remote = {}
  /\ now = 0
  /\ reqs = [r \in Slots |-> IdleReq]
  /\ probe \in VaultInputs({"gho_1", ""}, {"s1"}, {"n1"},
                           {NoBlob, Sealed("gho_2", "s2", "n2")},
                           {t \in Tampers : t.part \in {"none", "tag_flip", "data_flip"}})

ConnectInputs == {<<"alpha", "acme/site", "cloudflare">>, <<"alpha", "acme", "cloudflare">>}

DoConnectCreate ==
  /\ probe.st = "kept"
  /\ \E r \in Slots, in \in ConnectInputs :
       CreateProjectWith(r, "u1", in[1], "", in[2], in[3],
                         getGitHubToken(probe.kept, probe.readKey))

NextConnect ==
  \/ VaultSet
  \/ VaultTamper
  \/ DoConnectCreate
  \/ DoProviderRespond
  \/ DoStoreComplete
  \/ DoRetire

SpecConnect == InitConnect /\ [][NextConnect]_vars

\* ----------------------------- a provider whose credentials are missing
\* NETLIFY_API_TOKEN is not set while the Cloudflare client is
\* configured: every call of the Netlify client stops in ensureConfigured
DoConfiguredRespond ==
  \E r \in Slots, p \in ProjectIds, res \in ProviderAnswers \cup {NotConfigured} :
    /\ res.out = "not_configured" <=> reqs[r].tasks[p].svc = "NetlifyService"
    /\ ProviderRespond(r, p, res)

NextConfig ==
  \/ DoCreateProject
  \/ DoGetProject
  \/ DoConfiguredRespond
  \/ DoStoreComplete
  \/ DoRetire

SpecConfig == Init /\ [][NextConfig]_vars

\* ------------------------------- createDeployment of the two clients
\* repository names as character sequences of at most MaxRepoLen
MaxRepoLen == 5
RepoTexts == UNION {[1..n -> {"a", "/"}] : n \in 0..MaxRepoLen}

\* String.prototype.split('/')
RECURSIVE Split(_)
Split(text) ==
  IF \A i \in 1..Len(text) : text[i] # "/"
  THEN <<text>>
  ELSE LET i == CHOOSE k \in 1..Len(text) :
                  text[k] = "/" /\ \A j \in 1..(k - 1) : text[j] # "/"
       IN <<SubSeq(text, 1, i - 1)>> \o Split(SubSeq(text, i + 1, Len(text)))

\* What createDeployment does with gitHubRepo before this.request: the
\* Cloudflare client destructures the first two parts of the split and
\* throws when one is empty or missing; the Netlify client passes the
\* string on as it is.
createDeployment(service, gitHubRepo) ==
  LET parts == Split(gitHubRepo)
      owner == parts[1]
      repo == IF Len(parts) >= 2 THEN parts[2] ELSE <<>>
  IN IF service = "CloudflareService" /\ (owner = <<>> \/ repo = <<>>)
     THEN [threw |-> "INVALID_GITHUB_REPO", requested |-> FALSE]
     ELSE [threw |-> "", requested |-> TRUE]

InitRepo ==
  /\ projects = [p \in ProjectIds |-> Blank]
  /\ exists = {}
  /\ nextId = 1
  /\ remote = {}
  /\ now = 0
  /\ reqs = [r \in Slots |-> IdleReq]
  /\ probe \in [st : {"call"}, service : {"CloudflareService", "NetlifyService"},
                gitHubRepo : RepoTexts,
                result : {[threw |-> "", requested |-> FALSE]}]

\* the call throws or reaches this.request
CreateDeploymentCall ==
  /\ probe.st = "call"
  /\ probe' = [probe EXCEPT !.st = "returned",
                            !.result = createDeployment(probe.service, probe.gitHubRepo)]
  /\ UNCHANGED <<projects, exists, nextId, remote, now, reqs>>

NextRepo == CreateDeploymentCall

SpecRepo == InitRepo /\ [][NextRepo]_vars

\* ---------------------------------- refreshes and pushes of one project
\* the owner refreshes the first stored project while GitHub delivers
\* pushes for its repository, signed with the project's secret or unsigned
DoRefreshSite == \E r \in Slots : GetProject(r, "u1", 1)

DoPushSite ==
  \E r \in Slots, sig \in {Hmac(SiteBody, SecretOf(1)), NoSig} :
    WebhookGithub(r, "push", SiteBody, sig)

NextRace ==
  \/ DoRefreshSite
  \/ DoPushSite
  \/ DoByIdRespond
  \/ DoStoreComplete
  \/ Tick
  \/ DoRetire

SpecRace == InitList /\ [][NextRace]_vars

\* ------------------------------ POST /webhook/github, every path taken
GithubLookupFailedUnhandled(req) == Respond(req, 0, "unhandled rejection")

\* webhooks.ts lines 69-72: the catch around the whole handler
GithubLookupFailed(req) == Respond(req, 500, "Internal server error")

\* webhooks.ts lines 11-26 when Project.findOne rejects
WebhookGithubLookupFails(r, evt, body, sig) ==
  /\ FreeSlot(r)
  /\ evt = "push"
  /\ JsonParse(body).full_name # Missing
  /\ LET req == [IdleReq EXCEPT !.kind = "webhook",
                                !.wh = [evt |-> evt, body |-> body, sig |-> sig]]
     IN reqs' = [reqs EXCEPT ![r] = GithubLookupFailed(req)]
  /\ UNCHANGED <<probe, projects, exists, nextId, remote, now>>

DoHookLookupFails ==
  \E r \in Slots, d \in Deliveries : WebhookGithubLookupFails(r, d[1], d[2], d[3])

NextHook ==
  \/ DoWebhookGithub
  \/ DoHookLookupFails
  \/ DoRefreshSite
  \/ DoByIdRespond
  \/ DoStoreComplete
  \/ DoRetire

\* every provider call and every database call comes back: fetch gives up
\* after its default timeouts, the driver after its own
SpecHook ==
  /\ InitList
  /\ [][NextHook]_vars
  /\ WF_vars(DoByIdRespond)
  /\ WF_vars(DoStoreComplete)

\* =============================================================== claims
\* a delivered push webhook that named a tracked repository
PushToTracked(req) ==
  /\ req.kind = "webhook"
  /\ req.wh.evt = "push"
  /\ req.found # 0

\* the header GitHub sends for the bytes of this delivery: sha256= + the
\* HMAC of the body as sent, under the secret stored with the project
SignedAsSent(req) ==
  req.wh.sig = Hmac(req.wh.body, projects[req.found].webhookSecret)

\* C1: a push webhook for a tracked repository whose signature header does
\* not verify against the stored webhookSecret is answered 401, makes no
\* triggerRedeploy call and writes nothing to the stored project.
C1_InvalidSignatureRejected ==
  \A r \in Slots :
    LET req == reqs[r]
    IN (PushToTracked(req) /\ ~SignedAsSent(req))
         => /\ req.pc = "done"
            /\ req.resp = 401
            /\ req.calls = 0
            /\ req.tasks[req.found].w = 0
            /\ req.tasks[req.found].st = "none"

C1_Witness ==
  \E r \in Slots :
    /\ PushToTracked(reqs[r])
    /\ reqs[r].wh.sig = DeadBeef
    /\ reqs[r].resp = 401
    /\ reqs[r].found \in exists

\* C2: a push to refs/heads/main of a project whose defaultBranch is main,
\* signed with the stored secret over the body sent, is answered 200,
\* makes one triggerRedeploy call and saves status deploying with the
\* time of the request.  (Stated for bodies sent in the compact layout,
\* where re-serialization changes nothing.)
C2_ValidPushRedeploys ==
  \A r \in Slots :
    LET req == reqs[r]
    IN (/\ PushToTracked(req)
        /\ req.pc = "done"
        /\ SignedAsSent(req)
        /\ req.wh.body.form = "compact"
        /\ req.wh.body.json.ref = "refs/heads/main"
        /\ req.arg.branch = "main")
         => /\ req.resp = 200
            /\ req.calls = 1
            /\ req.tasks[req.found].st = "ok"

\* C3: the handler accepts the signature if and only if the header equals
\* sha256= + HMAC-SHA256 of the body bytes as received, under the secret.
C3_SignatureOverRawBody ==
  \A r \in Slots :
    LET req == reqs[r]
    IN PushToTracked(req) => (req.resp # 401 <=> SignedAsSent(req))

\* C4: a validly signed push makes exactly one triggerRedeploy call when
\* its ref without refs/heads/ equals the project's defaultBranch, and
\* otherwise makes none, writes nothing and is still answered 200.
C4_BranchFilter ==
  \A r \in Slots :
    LET req == reqs[r]
        ref == req.wh.body.json.ref
    IN (PushToTracked(req) /\ SignedAsSent(req) /\ ref # Missing)
         => IF StripRefsHeads(ref) = req.arg.branch
            THEN req.calls = 1
            ELSE /\ req.calls = 0
                 /\ req.tasks[req.found].w = 0
                 /\ req.pc = "done"
                 /\ req.resp = 200

\* C5: the same valid push delivered twice makes exactly two
\* triggerRedeploy calls and leaves the project stored with status
\* deploying.
C5_RedeliveryTwice ==
  \A r1, r2 \in Slots :
    LET a == reqs[r1]
        b == reqs[r2]
    IN (/\ r1 # r2
        /\ PushToTracked(a) /\ PushToTracked(b)
        /\ a.pc = "done" /\ b.pc = "done"
        /\ a.wh = b.wh
        /\ a.found = b.found
        /\ SignedAsSent(a)
        /\ a.wh.body.json.ref # Missing
        /\ StripRefsHeads(a.wh.body.json.ref) = a.arg.branch
        /\ a.arg.branch = b.arg.branch)
         => /\ a.calls + b.calls = 2
            /\ projects[a.found].status = "deploying"

\* C6: when createDeployment fails during POST /projects nothing is
\* stored and the caller gets 502 DEPLOYMENT_FAILED.
C6_CreateFailureNotPersisted ==
  \A r \in Slots :
    LET req == reqs[r]
    IN (req.kind = "create" /\ req.found # 0 /\ req.tasks[req.found].out \in Errors)
         => /\ req.pc = "done"
            /\ req.resp = 502
            /\ req.code = "DEPLOYMENT_FAILED"
            /\ req.tasks[req.found].w = 0
            /\ req.found \notin exists

\* C7: DELETE asks the provider first and removes the stored record only
\* after deleteDeployment succeeded; when the provider call failed the
\* request is answered with an error and has written nothing.
C7_DeleteProviderFirst ==
  \A r \in Slots :
    LET req == reqs[r]
        task == req.tasks[req.found]
    IN (req.kind = "delete" /\ req.found # 0) =>
         /\ task.st # "none" => req.calls = 1
         /\ (task.st \in {"remove", "ok", "dberr"} \/ task.w > 0)
              => task.out = "ok" /\ DepOf(req.found) \notin remote
         /\ task.out \in Errors
              => /\ task.w = 0
                 /\ task.st = "err"
                 /\ req.pc = "done"
                 /\ req.resp = (IF task.out = "provider_error" THEN 502 ELSE 500)

C7_Witness ==
  \E r \in Slots :
    /\ reqs[r].kind = "delete"
    /\ reqs[r].pc = "done"
    /\ reqs[r].found \in exists
    /\ reqs[r].tasks[reqs[r].found].out = "provider_error"
    /\ reqs[r].resp = 502
    /\ DepOf(reqs[r].found) \in remote

\* the three fields a refresh assigns
Triple(doc) == <<doc.status, doc.deploymentUrl, doc.lastDeploymentTime>>

\* a finished request whose refresh of document p went through
RefreshedOk(req, p) ==
  /\ req.kind \in {"get", "list"}
  /\ req.pc = "done"
  /\ req.tasks[p].st = "ok"

\* C8: once two refreshes of the same project have both gone through, the
\* stored (status, deploymentUrl, lastDeploymentTime) is the triple one of
\* them computed from its snapshot, never a mixture.
C8_NoTornRefresh ==
  \A r1, r2 \in Slots, p \in exists :
    (r1 # r2 /\ RefreshedOk(reqs[r1], p) /\ RefreshedOk(reqs[r2], p))
      => Triple(projects[p]) \in {Triple(reqs[r1].tasks[p].cur),
                                  Triple(reqs[r2].tasks[p].cur)}

\* a request whose provider call for document p failed
ProviderFailed(req, p) ==
  /\ req.kind \in {"get", "list", "webhook"}
  /\ req.tasks[p].out \in Errors

C10_RefreshReflectsSnapshot ==
  [][\A r \in Slots, p \in ProjectIds :
       LET task == reqs[r].tasks[p]
       IN (/\ reqs[r].kind \in {"get", "list"}
           /\ task.st = "save"
           /\ reqs'[r].tasks[p].st = "ok")
            => /\ projects'[p].status = normalizeProjectStatus(task.snap.status)
               /\ projects'[p].lastDeploymentTime = task.snap.lastDeployed
               /\ projects'[p].deploymentUrl =
                    OrElse(task.snap.deploymentUrl,
                           OrElse(task.snap.url, task.base.deploymentUrl))]_vars

C13_VerifyIffDigest ==
  probe.st = "returned" =>
    (probe.result <=>
       /\ probe.payload # EmptyText
       /\ probe.signature # NoSig
       /\ probe.secret # NoSecret
       /\ probe.signature = Hmac(probe.payload, probe.secret))

\* the correctly computed signature of a non-empty payload was accepted
C13_Witness ==
  /\ probe.st = "returned"
  /\ probe.result
  /\ probe.payload # EmptyText
  /\ probe.signature = Hmac(probe.payload, probe.secret)

\* no task of the request was ever started: no provider call, no write
Untouched(req) ==
  /\ req.calls = 0
  /\ \A p \in ProjectIds : req.tasks[p].st = "none" /\ req.tasks[p].w = 0

\* C14: a push naming a repository no stored project has is answered 404
\* with no body, whatever its signature and ref are, with no provider
\* call and no write.
C14_UntrackedRepo404 ==
  \A r \in Slots :
    LET req == reqs[r]
    IN (/\ req.kind = "webhook"
        /\ req.wh.evt = "push"
        /\ req.wh.body.json.full_name # Missing
        /\ req.found = 0)
         => /\ req.pc = "done"
            /\ req.resp = 404
            /\ req.code = ""
            /\ Untouched(req)

\* a signed push for a repository nobody tracks, while another is tracked
C14_Witness ==
  \E r \in Slots :
    /\ reqs[r].kind = "webhook"
    /\ reqs[r].wh.evt = "push"
    /\ reqs[r].wh.sig.kind = "hmac"
    /\ reqs[r].wh.body.json.full_name # Missing
    /\ FindByRepo(reqs[r].wh.body.json.full_name) = {}
    /\ exists # {}
    /\ reqs[r].resp = 404

\* C15: a push without repository.full_name is answered 400, and a push
\* for a tracked repository that is signed with the stored secret but has
\* no ref is answered 400; neither makes a provider call or a write.
C15_MalformedPayload400 ==
  \A r \in Slots :
    LET req == reqs[r]
    IN /\ (/\ req.kind = "webhook"
           /\ req.wh.evt = "push"
           /\ req.wh.body.json.full_name = Missing)
            => req.pc = "done" /\ req.resp = 400 /\ req.found = 0 /\ Untouched(req)
       /\ (/\ PushToTracked(req)
           /\ SignedAsSent(req)
           /\ req.wh.body.form = "compact"
           /\ req.wh.body.json.ref = Missing)
            => req.pc = "done" /\ req.resp = 400 /\ Untouched(req)

\* C16: a delivery whose event is not push is answered 200 without a
\* project lookup, a provider call or a write, whatever it carries.
C16_OtherEventsIgnored ==
  \A r \in Slots :
    LET req == reqs[r]
    IN (req.kind = "webhook" /\ req.wh.evt # "push")
         => /\ req.pc = "done"
            /\ req.resp = 200
            /\ req.code = "Event ignored"
            /\ req.found = 0
            /\ Untouched(req)

\* a ping that names a tracked repository and carries its valid signature
C16_Witness ==
  \E r \in Slots :
    /\ reqs[r].kind = "webhook"
    /\ reqs[r].wh.evt = "ping"
    /\ FindByRepo(reqs[r].wh.body.json.full_name) # {}
    /\ reqs[r].wh.sig = Hmac(reqs[r].wh.body, SenderKey(reqs[r].wh.body))
    /\ reqs[r].resp = 200

C18_ListIsolation ==
  \A r \in Slots :
    LET req == reqs[r]
    IN req.kind = "list" =>
         /\ \A p \in ProjectIds :
              req.tasks[p].out \in Errors
                => req.tasks[p].st = "err" /\ req.tasks[p].w = 0
         /\ req.pc = "done" =>
              /\ req.resp = 200
              /\ req.calls = Cardinality({p \in ProjectIds : req.tasks[p].st # "none"})
              /\ \A p \in ProjectIds :
                   /\ req.tasks[p].st \in {"none", "ok", "err", "dberr"}
                   /\ req.tasks[p].out = "ok" => req.tasks[p].st \in {"ok", "dberr"}

\* a listing answered 200 in which the query for the first project failed
\* and the refresh of the second was saved
C18_Witness ==
  \E r \in Slots :
    /\ reqs[r].kind = "list"
    /\ reqs[r].pc = "done" /\ reqs[r].resp = 200
    /\ reqs[r].tasks[1].out = "provider_error" /\ reqs[r].tasks[1].w = 0
    /\ reqs[r].tasks[2].st = "ok" /\ reqs[r].tasks[2].w = 1
    /\ projects[2].status = reqs[r].tasks[2].cur.status

\* C19: coerceStatus maps every raw value, string or not, to one of
\* deploying, deployed, failed; a value with none of the client's keywords
\* in it maps to deploying; for Cloudflare success maps to deployed and
\* canceled to deploying.
C19_CoerceTotal ==
  probe.st = "returned" =>
    LET known == DeployedWords(probe.provider) \cup FailedWords(probe.provider)
        text == LowerCase(probe.value.text)
    IN /\ probe.result \in ProjectStatus
       /\ (~probe.value.isString \/ ~IncludesAny(text, known))
            => probe.result = "deploying"
       /\ (probe.provider = "cloudflare" /\ probe.value.isString)
            => /\ probe.value.text = <<"s", "u", "c", "c", "e", "s", "s">> => probe.result = "deployed"
               /\ probe.value.text = <<"c", "a", "n", "c", "e", "l", "e", "d">> => probe.result = "deploying"

\* Cloudflare's canceled came back as deploying
C19_Witness ==
  /\ probe.st = "returned"
  /\ probe.provider = "cloudflare"
  /\ probe.value.isString
  /\ probe.value.text = <<"c", "a", "n", "c", "e", "l", "e", "d">>
  /\ probe.result = "deploying"

\* a correctly signed push (sent in the compact layout) to the default
\* branch of a tracked project that has been answered and met no provider
\* or database failure
RedeployTrigger(req) ==
  /\ PushToTracked(req)
  /\ req.pc = "done"
  /\ SignedAsSent(req)
  /\ req.wh.body.form = "compact"
  /\ req.tasks[req.found].st # "dberr"
  /\ req.wh.body.json.ref # Missing
  /\ StripRefsHeads(req.wh.body.json.ref) = req.arg.branch
  /\ req.tasks[req.found].out \notin Errors

\* C20: two redeploys of one project triggered by webhooks, whose provider
\* calls both succeed, make exactly two triggerRedeploy calls and leave
\* the project stored as deploying with a lastDeploymentTime one of them
\* wrote.
C20_RedeployLastWriteWins ==
  \A r1, r2 \in Slots :
    LET a == reqs[r1]
        b == reqs[r2]
    IN (r1 # r2 /\ RedeployTrigger(a) /\ RedeployTrigger(b) /\ a.found = b.found)
         => /\ a.calls = 1 /\ b.calls = 1
            /\ a.resp = 200 /\ b.resp = 200
            /\ projects[a.found].status = "deploying"
            /\ projects[a.found].lastDeploymentTime \in 0..now


\* two stored projects with the same owner and the same name
SamePair(p, q) ==
  p # q /\ projects[p].owner = projects[q].owner /\ projects[p].name = projects[q].name

\* C21: no two stored projects ever share (owner, name), and a rename whose
\* save would make two of them share it is answered 409
\* PROJECT_NAME_EXISTS and changes nothing in the collection.
C21_OwnerNameUnique ==
  [][/\ \A p, q \in exists' : ~SamePair(p, q)'
     /\ \A r \in Slots, p \in exists :
          LET task == reqs[r].tasks[p]
          IN (/\ reqs[r].kind = "patch"
              /\ task.st = "save"
              /\ reqs'[r].pc = "done"
              /\ task.cur.name # task.base.name
              /\ FindByOwnerName(projects[p].owner, task.cur.name, p) # {})
               => /\ reqs'[r].resp = 409
                  /\ reqs'[r].code = "PROJECT_NAME_EXISTS"
                  /\ projects' = projects]_vars

\* C22: the deploymentProvider of a stored project never changes, and
\* every provider call made for a project goes to the client its stored
\* deploymentProvider names: cloudflare to the Cloudflare client, anything
\* else to the Netlify client.
C22_ProviderFixed ==
  [][/\ \A p \in exists \cap exists' :
          projects'[p].deploymentProvider = projects[p].deploymentProvider
     /\ \A r \in Slots, p \in exists :
          (reqs[r].tasks[p].st # "provider" /\ reqs'[r].tasks[p].st = "provider")
            => /\ reqs'[r].tasks[p].svc \in {"CloudflareService", "NetlifyService"}
               /\ reqs'[r].tasks[p].svc = "CloudflareService"
                    <=> projects[p].deploymentProvider = "cloudflare"]_vars

\* a call for the edited Cloudflare project is under way at the Cloudflare
\* client while the Netlify project, edited too, is being deleted
C22_Witness ==
  \E r, q \in Slots :
    /\ reqs[r].kind \in {"get", "logs"}
    /\ reqs[r].tasks[1].st = "provider"
    /\ reqs[r].tasks[1].svc = "CloudflareService"
    /\ projects[1].name = "gamma"
    /\ reqs[q].kind = "delete"
    /\ reqs[q].tasks[2].st = "provider"
    /\ reqs[q].tasks[2].svc = "NetlifyService"
    /\ projects[2].defaultBranch = "develop"

\* C23: with the encryption key configured, decryptToken gives back the
\* token encryptToken sealed, and gives the empty string, without
\* throwing, for a blob whose salt, nonce, tag or data was altered.
C23_VaultRoundTrip ==
  (/\ probe.st = "returned"
   /\ probe.token # ""
   /\ probe.writeKey = ENCRYPTION_KEY
   /\ probe.readKey = ENCRYPTION_KEY)
    => /\ ~probe.set.threw
       /\ probe.set.value # NoBlob
       /\ probe.kept = probe.set.value => probe.plain = [threw |-> FALSE, value |-> probe.token]
       /\ probe.kept # probe.set.value => probe.plain = [threw |-> FALSE, value |-> ""]

\* a blob whose data had a bit flipped was read back as the empty string
C23_Witness ==
  /\ probe.st = "returned"
  /\ probe.token = "gho_1"
  /\ probe.writeKey = ENCRYPTION_KEY
  /\ probe.readKey = ENCRYPTION_KEY
  /\ probe.tamper.part = "data_flip"
  /\ probe.kept # probe.set.value
  /\ probe.plain.value = ""

\* the stored credential cannot be decrypted: it was altered at rest, or
\* the encryption key is missing when it is read
Undecryptable ==
  /\ probe.st = "kept"
  /\ probe.kept # NoBlob
  /\ probe.kept # probe.set.value \/ probe.readKey = NoKey

\* C24: when the stored credential cannot be decrypted, POST /projects
\* (past validation and the name check) is answered 401
\* GITHUB_NOT_CONNECTED with no provider call and no project stored; and
\* when setGitHubToken cannot encrypt a token it throws and the stored
\* field stays what it was.
C24_DecryptFailureIsNotConnected ==
  /\ Undecryptable =>
       /\ exists = {}
       /\ remote = {}
       /\ \A r \in Slots :
            (reqs[r].kind = "create" /\ ValidRepo(reqs[r].arg.githubRepo))
              => /\ reqs[r].pc = "done"
                 /\ reqs[r].resp = 401
                 /\ reqs[r].code = "GITHUB_NOT_CONNECTED"
                 /\ reqs[r].calls = 0
  /\ (probe.st # "call" /\ probe.token # "" /\ probe.writeKey = NoKey)
       => /\ probe.set.threw
          /\ probe.set.value = probe.old

\* the blob of the connected user had its tag altered, and the user's
\* POST /projects was answered 401
C24_Witness ==
  /\ Undecryptable
  /\ probe.tamper.part = "tag_flip"
  /\ probe.readKey = ENCRYPTION_KEY
  /\ \E r \in Slots :
       /\ reqs[r].kind = "create"
       /\ reqs[r].resp = 401
       /\ reqs[r].calls = 0

\* C25: a provider call that stops because the provider's credentials are
\* not configured is answered 500, not the 502 of provider failures, and
\* nothing is created at the provider or stored.
C25_ConfigurationErrorIs500 ==
  \A r \in Slots, p \in ProjectIds :
    (reqs[r].pc = "done" /\ reqs[r].tasks[p].out = "not_configured")
      => /\ reqs[r].resp = 500
         /\ reqs[r].code # "DEPLOYMENT_FAILED"
         /\ reqs[r].tasks[p].w = 0
         /\ DepOf(p) \notin remote

\* owner/repo: exactly one slash, with something on both sides of it
OwnerSlashRepo(text) ==
  /\ Cardinality({i \in 1..Len(text) : text[i] = "/"}) = 1
  /\ Len(text) >= 3
  /\ text[1] # "/"
  /\ text[Len(text)] # "/"

\* C26: createDeployment of either client, given a repository name that
\* is not owner/repo, throws a validation error and issues no request.
C26_MalformedRepoRejectedByClient ==
  (probe.st = "returned" /\ ~OwnerSlashRepo(probe.gitHubRepo))
    => /\ probe.result.threw = "INVALID_GITHUB_REPO"
       /\ ~probe.result.requested

StaleRefreshSaves(req, p) ==
  /\ req.kind \in {"get", "list"}
  /\ req.tasks[p].st = "save"
  /\ projects[p].status = "deploying"
  /\ projects[p].lastDeploymentTime > req.tasks[p].base.lastDeploymentTime
  /\ projects[p].lastDeploymentTime > req.tasks[p].snap.lastDeployed

C29_NoOrphanDeployment ==
  \A d \in remote :
    \/ \E p \in exists : projects[p].deploymentId = d
    \/ \E r \in Slots :
         /\ reqs[r].kind = "create"
         /\ reqs[r].pc # "done"
         /\ reqs[r].found # 0
         /\ DepOf(reqs[r].found) = d

\* the status codes the webhook handler may answer with
HookCodes == {200, 400, 401, 404, 500}

====
